---- MODULE Spec2Model ----
(***************************************************************************)
(* Lifecycle of one freebsdContainer (libcontainer/container_freebsd.go,   *)
(* the revision that remembers a jailId): Start / Run / Exec / Destroy /   *)
(* Status / State called by supervisor threads, the reader goroutines that *)
(* Run spawns, the exec fifo, and the host side (the jail -c command, the  *)
(* jail it creates, the launch time stamp file inside the jail).           *)
(*                                                                         *)
(* Strings of the program are modelled by naturals: 0 is the empty string  *)
(* (no jail id, no start time, absent file), n > 0 a value.                *)
(***************************************************************************)
EXTENDS Naturals, FiniteSets, Sequences, Bags, TLC

\* ------------------------------------------------------------------ bounds
\* Total number of API calls made by all threads together.
MaxCalls == 3
\* Number of reader goroutines of Run (go c.exec()) alive at a time.
MaxGo == 2
\* Number of host faults in one behaviour: a system call or a command of
\* the host failing (mkfifo, chown, writing jail.conf, spawning or waiting
\* for jail, jail -c exiting non-zero by itself).
MaxFaults == 1
\* Number of entries of the parameter map rendered into jail.conf.
MaxParams == 2

Threads == {"t1", "t2"}

VARIABLES
    jailId,                 \* c.jailId, 0 = ""
    initProcessStartTime,   \* c.initProcessStartTime, 0 = ""
    state,                  \* c.state: "stopped" | "created" | "running"
    created,                \* c.created: time.Now() of the last start(), 0 = never
    m,                      \* c.m: "free" or the thread holding it
    execFifo,               \* <rootfs>/exec.fifo: [kind, gen]
    jailConf,               \* <root>/jail.conf: 0 absent, n = written at time n
    stateFile,              \* <root>/state.json
    hostJail,               \* jid of the host's jail named c.id, 0 = none
    launchTm,               \* content of the launch time stamp file, 0 = absent
    jcmd,                   \* the running "jail -c" command
    faults,                 \* host faults so far
    pc, op, status, calls,  \* threads: position, call, local status; calls made
    rd,                     \* threads reading the exec fifo in Exec()
    gr,                     \* bag of the goroutines reading the exec fifo (go c.exec())
    ret,                    \* what the step just taken returned to its caller
    lastStart,              \* history: the last Start on a Stopped container: whether it
                            \* succeeded, the jail id it recorded, whether its own
                            \* command created that jail, and the call (Start or Run)
    everStarted,            \* history: Start or Run has been called
    cid,                    \* start(): c.id, a string
    params,                 \* start(): the parameter map, key -> value
    rest,                   \* start(): keys the range over params has yet to yield
    lines,                  \* start(): lines
    conf                    \* start(): conf, <<>> before it is rendered

cvars == <<jailId, initProcessStartTime, state, created>>
fvars == <<execFifo, jailConf, stateFile>>
hvars == <<hostJail, launchTm, jcmd, faults>>
tvars == <<pc, op, status, calls>>
rvars == <<rd, gr>>
gvars == <<lastStart, everStarted>>
lvars == <<cid, params, rest, lines, conf>>
vars == <<cvars, m, fvars, hvars, tvars, rvars, ret, gvars, lvars>>

NoFifo == [kind |-> "none", gen |-> 0]
NoCmd == [pc |-> "none", k |-> 0, out |-> "ok", wgen |-> 0]
NoState == [present |-> FALSE, startTime |-> 0, created |-> 0]
IdleReader == [pc |-> "idle", gen |-> 0]
NoRet == [op |-> "none", err |-> "nil", st |-> "none", cmd |-> "none"]
NoStart == [ok |-> FALSE, jail |-> 0, own |-> FALSE, op |-> "none"]

\* The container fields and the host facts the status functions read.
Cont == [jailId |-> jailId, ipst |-> initProcessStartTime, state |-> state,
         created |-> created]
Host == [jail |-> hostJail, tm |-> launchTm, fifo |-> execFifo.kind # "none"]

\* ------------------------------------------------------- status functions
\* getInitProcessTime: jexec into the jail and cat the launch time stamp
\* file; the command fails when the jail is gone or the file is missing.
GetInitProcessTime(h) ==
    IF h.jail = 0 \/ h.tm = 0
    THEN [err |-> TRUE, out |-> 0]
    ELSE [err |-> FALSE, out |-> h.tm]

\* An identity check that takes any start time the jail reports as a match.
DoesInitProcessExistNoCompare(c, h) ==
    LET q == GetInitProcessTime(h)
    IN  IF q.err THEN [exist |-> FALSE, err |-> TRUE]
        ELSE [exist |-> TRUE, err |-> FALSE]

\* doesInitProcessExist: the live start time against the remembered one.
DoesInitProcessExist(c, h) ==
    LET q == GetInitProcessTime(h)
    IN  IF q.err THEN [exist |-> FALSE, err |-> TRUE]
        ELSE IF c.ipst # q.out THEN [exist |-> FALSE, err |-> FALSE]
        ELSE [exist |-> TRUE, err |-> FALSE]

\* A runType that queries the host even when no jail id is remembered.
RunTypeNoJailIdCheck(c, h) ==
    LET e == DoesInitProcessExist(c, h)
    IN  IF ~e.exist \/ e.err THEN [st |-> "Stopped", err |-> e.err]
        ELSE IF h.fifo THEN [st |-> "Created", err |-> FALSE]
        ELSE [st |-> "Running", err |-> FALSE]

\* runType: Stopped without a jail id or when the identity check fails
\* (with the query's error, if any); else Created while the exec fifo path
\* exists, else Running.
RunType(c, h) ==
    IF c.jailId = 0 THEN [st |-> "Stopped", err |-> FALSE]
    ELSE LET e == DoesInitProcessExist(c, h)
         IN  IF ~e.exist \/ e.err THEN [st |-> "Stopped", err |-> e.err]
             ELSE IF h.fifo THEN [st |-> "Created", err |-> FALSE]
             ELSE [st |-> "Running", err |-> FALSE]

\* refreshState's switch: the state object for a resolved status.
StateOf(st) ==
    CASE st = "Created" -> "created"
      [] st = "Running" -> "running"
      [] OTHER -> "stopped"

\* containerState.status()
StatusOf(s) ==
    CASE s = "created" -> "Created"
      [] s = "running" -> "Running"
      [] OTHER -> "Stopped"

\* containerState.transition(s): the container moves to the resolved state.
Transition(c, s) == [c EXCEPT !.state = s]

\* A refresh that also re-reads the remembered start time from the host.
RefreshStateResync(c, h) ==
    LET t == RunType(c, h)
        q == GetInitProcessTime(h)
    IN  IF t.err THEN [err |-> TRUE, c |-> c]
        ELSE [err |-> FALSE,
              c |-> [Transition(c, StateOf(t.st)) EXCEPT
                       !.ipst = IF c.jailId # 0 /\ ~q.err THEN q.out ELSE @]]

\* refreshState: isPaused() is always false; resolve runType and transition.
RefreshState(c, h) ==
    LET t == RunType(c, h)
    IN  IF t.err THEN [err |-> TRUE, c |-> c]
        ELSE [err |-> FALSE, c |-> Transition(c, StateOf(t.st))]

\* currentStatus: (-1, err) when the refresh fails, else c.state.status().
CurrentStatus(c, h) ==
    LET r == RefreshState(c, h)
    IN  IF r.err THEN [err |-> TRUE, st |-> "none", c |-> r.c]
        ELSE [err |-> FALSE, st |-> StatusOf(r.c.state), c |-> r.c]

\* currentState: the snapshot; the start time is read live when a jail id
\* is remembered, and the query's error is dropped.
CurrentState(c, h) ==
    [present |-> TRUE,
     startTime |-> IF c.jailId # 0 THEN GetInitProcessTime(h).out ELSE 0,
     created |-> c.created]

\* getJailId: the jid jls lists under the container's name, "" when none.
GetJailId(h) == h.jail

\* ------------------------------------------------------------------ Init
\* A freshly created container (Factory.Create: Stopped, no jail id). The
\* host may already hold a stale exec fifo in the rootfs and a jail that
\* carries the container's name.
InitContainer ==
    /\ jailId = 0 /\ initProcessStartTime = 0 /\ state = "stopped" /\ created = 0
    /\ m = "free"
    /\ execFifo \in {NoFifo, [kind |-> "fifo", gen |-> 0]}
    /\ jailConf = 0
    /\ stateFile = NoState
    /\ \E pre \in {0, 1} : hostJail = pre /\ launchTm = pre
    /\ jcmd = NoCmd
    /\ faults = 0
    /\ pc = [t \in Threads |-> "idle"]
    /\ op = [t \in Threads |-> "none"]
    /\ status = [t \in Threads |-> "none"]
    /\ calls = 0
    /\ rd = [t \in Threads |-> IdleReader]
    /\ gr = EmptyBag
    /\ ret = NoRet
    /\ lastStart = NoStart
    /\ everStarted = FALSE

\* No descriptor is being rendered.
NoRender ==
    /\ cid = <<>> /\ params = <<>> /\ rest = {} /\ lines = <<>> /\ conf = <<>>

Init == InitContainer /\ NoRender

\* The outcomes the host may give: all of them while a fault is allowed,
\* the faultless one after that.
Outcomes(good, bad) == IF faults < MaxFaults THEN {good} \cup bad ELSE {good}

Fault(happened) == faults' = IF happened THEN faults + 1 ELSE faults

\* The bag of n copies of r.
Copies(r, n) == IF n = 0 THEN EmptyBag ELSE [x \in {r} |-> n]

\* A thread enters an API call.
Begin(t) ==
    /\ pc[t] = "idle"
    /\ calls < MaxCalls
    /\ calls' = calls + 1

\* The step returns nothing to a caller.
NoReturn == ret' = NoRet

\* The call o of thread t returns error e (and status s); cmd is the host
\* command the returning step has started, "none" when it started none.
ReturnCmd(t, o, e, s, cmd) ==
    /\ ret' = [op |-> o, err |-> e, st |-> s, cmd |-> cmd]
    /\ pc' = [pc EXCEPT ![t] = "idle"]
    /\ op' = [op EXCEPT ![t] = "none"]
    /\ status' = [status EXCEPT ![t] = "none"]

Return(t, o, e, s) == ReturnCmd(t, o, e, s, "none")

\* --------------------------------------------------------- Status, State
\* A Status that saves the state record after the refresh (updateState()).
StatusSaving(t) ==
    /\ Begin(t)
    /\ m = "free"
    /\ LET cs == CurrentStatus(Cont, Host)
       IN  /\ state' = cs.c.state
           /\ initProcessStartTime' = cs.c.ipst
           /\ stateFile' = CurrentState(cs.c, Host)
           /\ IF cs.err THEN Return(t, "Status", "query", "none")
              ELSE Return(t, "Status", "nil", cs.st)
    /\ UNCHANGED <<jailId, created, m, execFifo, jailConf, hvars, rvars, gvars>>
    /\ UNCHANGED lvars

\* Status(): lock, currentStatus(), unlock.
Status(t) ==
    /\ Begin(t)
    /\ m = "free"
    /\ LET cs == CurrentStatus(Cont, Host)
       IN  /\ state' = cs.c.state
           /\ initProcessStartTime' = cs.c.ipst
           /\ IF cs.err THEN Return(t, "Status", "query", "none")
              ELSE Return(t, "Status", "nil", cs.st)
    /\ UNCHANGED <<jailId, created, m, fvars, hvars, rvars, gvars>>
    /\ UNCHANGED lvars

\* State(): lock, currentState(), unlock.  There is no refreshState().
State(t) ==
    /\ Begin(t)
    /\ m = "free"
    /\ Return(t, "State", "nil", "none")
    /\ UNCHANGED <<cvars, m, fvars, hvars, rvars, gvars>>
    /\ UNCHANGED lvars

\* ------------------------------------------------------------------ Start
\* createExecFifo on the path holding f: HostRootUID/GID (an error returns
\* at once); a file found at the path is deleted (the "already exists"
\* error value is built and dropped); mkfifo (an error returns); chown (an
\* error returns, the new fifo stays).
CreateExecFifo(f, how, now) ==
    [err |-> how # "ok",
     fifo |-> CASE how = "uid_err" -> f
                [] how = "mkfifo_err" -> NoFifo
                [] OTHER -> [kind |-> "fifo", gen |-> now]]

\* Start up to cmd.Start(), under the lock:
\*   status, err := c.currentStatus()       (an error is returned)
\*   on Stopped: createExecFifo() (an error is returned), markCreated()
\*   start(), whatever the status: c.created, jail.conf, spawn jail -c
\* Inputs:  mk:  how createExecFifo ends
\*          how: jail.conf cannot be written / jail cannot be spawned / spawned
StartBegin(t, o) ==
    /\ m = "free"
    /\ \E mk \in Outcomes("ok", {"uid_err", "mkfifo_err", "chown_err"}),
          how \in Outcomes("spawned", {"conf_fail", "spawn_fail"}) :
         LET cs == CurrentStatus(Cont, Host)
             stopped == cs.st = "Stopped"
             now == created + 1
             cf == CreateExecFifo(execFifo, mk, now)
             \* markCreated: updateState() saves currentState(); the start
             \* time in it becomes the remembered one
             snap == CurrentState([cs.c EXCEPT !.created = now], Host)
         IN  IF cs.err
             THEN /\ mk = "ok" /\ how = "spawned"
                  /\ Return(t, o, "query", "none")
                  /\ UNCHANGED <<cvars, m, fvars, jcmd, faults, lastStart>>
             ELSE IF stopped /\ cf.err
             THEN /\ how = "spawned"
                  /\ Fault(TRUE)
                  /\ execFifo' = cf.fifo
                  /\ state' = cs.c.state
                  /\ Return(t, o, "mkfifo", "none")
                  /\ lastStart' = NoStart
                  /\ UNCHANGED <<jailId, initProcessStartTime, created, m, jailConf,
                                 stateFile, jcmd>>
             ELSE /\ mk = "ok"
                  /\ Fault(how # "spawned")
                  /\ execFifo' = IF stopped THEN cf.fifo ELSE execFifo
                  /\ created' = now
                  /\ state' = IF stopped THEN "created" ELSE cs.c.state
                  /\ stateFile' = IF stopped THEN snap ELSE stateFile
                  /\ initProcessStartTime' =
                        IF stopped THEN snap.startTime ELSE initProcessStartTime
                  /\ jailConf' = IF how = "conf_fail" THEN 0 ELSE now
                  /\ jailId' = jailId
                  /\ IF how = "spawned"
                     THEN /\ jcmd' = [pc |-> "create", k |-> now + 1, out |-> "ok",
                                      wgen |-> 0]
                          /\ m' = t
                          /\ pc' = [pc EXCEPT ![t] = "start_wait"]
                          /\ op' = [op EXCEPT ![t] = o]
                          /\ status' = [status EXCEPT ![t] = cs.st]
                          /\ NoReturn
                          /\ UNCHANGED lastStart
                     ELSE \* start() prints and returns nil: Start succeeds
                          /\ Return(t, o, "nil", "none")
                          /\ lastStart' = IF stopped
                                          THEN [ok |-> TRUE, jail |-> jailId, own |-> FALSE, op |-> o]
                                          ELSE lastStart
                          /\ UNCHANGED <<m, jcmd>>
    /\ UNCHANGED <<hostJail, launchTm, rvars>>
    /\ UNCHANGED lvars

Start(t) ==
    /\ Begin(t)
    /\ everStarted' = TRUE
    /\ StartBegin(t, "Start")

\* Start after <-jailStarted: the state and the jail id are set from the
\* outcome of cmd.Wait(); an *exec.ExitError is not kept as an error.
StartWait(t) ==
    /\ pc[t] = "start_wait"
    /\ jcmd.pc = "done"
    /\ LET waitErr == jcmd.out = "waiterr"
       IN  /\ state' = IF waitErr THEN "stopped" ELSE "running"
           /\ jailId' = IF waitErr THEN jailId ELSE GetJailId(Host)
           /\ execFifo' = IF waitErr /\ status[t] = "Stopped" THEN NoFifo ELSE execFifo
           /\ Return(t, op[t], IF waitErr THEN "wait" ELSE "nil", "none")
           /\ lastStart' = IF status[t] = "Stopped"
                           THEN [ok |-> ~waitErr, jail |-> jailId',
                                 own |-> jailId' = jcmd.k, op |-> op[t]]
                           ELSE lastStart
    /\ jcmd' = NoCmd
    /\ m' = "free"
    /\ UNCHANGED <<initProcessStartTime, created, jailConf, stateFile, hostJail,
                   launchTm, faults, calls, rvars, everStarted>>
    /\ UNCHANGED lvars

\* -------------------------------------------------------------------- Run
\* Run, first part: lock, currentStatus(), unlock; on Stopped go c.exec().
RunStatus(t) ==
    /\ Begin(t)
    /\ everStarted' = TRUE
    /\ m = "free"
    /\ LET cs == CurrentStatus(Cont, Host)
       IN  /\ state' = cs.c.state
           /\ initProcessStartTime' = cs.c.ipst
           /\ IF cs.err
              THEN /\ Return(t, "Run", "query", "none")
                   /\ gr' = gr
              ELSE /\ pc' = [pc EXCEPT ![t] = "run_start"]
                   /\ op' = [op EXCEPT ![t] = "Run"]
                   /\ NoReturn
                   /\ UNCHANGED status
                   /\ IF cs.st = "Stopped"
                      THEN /\ BagCardinality(gr) < MaxGo
                           /\ gr' = gr (+) Copies([pc |-> "open", gen |-> 0], 1)
                      ELSE gr' = gr
    /\ UNCHANGED <<jailId, created, m, fvars, hvars, rd, lastStart>>
    /\ UNCHANGED lvars

\* Run, second part: c.Start(process), which takes the lock again.
RunStart(t) ==
    /\ pc[t] = "run_start"
    /\ StartBegin(t, "Run")
    /\ UNCHANGED <<calls, everStarted>>

\* ------------------------------------------------------------------- exec
\* exec(): open the fifo path read-only, read it to end of file; data read
\* => remove the path and succeed, no data => "cannot start an already
\* running container".  What opening the path gives:
\*   no file        -> the open fails
\*   a regular file -> it is read at once (it holds the marker)
\*   a fifo         -> the open blocks until a writer opens the fifo
OpenFifo ==
    CASE execFifo.kind = "none" -> [pc |-> "open_err", gen |-> 0]
      [] execFifo.kind = "file" -> [pc |-> "got", gen |-> 0]
      [] OTHER -> [pc |-> "blocked", gen |-> execFifo.gen]

\* An exec() that succeeds however the open and the read end.
ExecResultAlwaysNil(r) == "nil"

\* What exec() returns: the open error, nil when data was read, "cannot
\* start an already running container" at end of file with no data.
ExecResult(r) ==
    CASE r.pc = "open_err" -> "open"
      [] r.pc = "got" -> "nil"
      [] OTHER -> "eof"

\* Exec(): lock, then exec() up to the blocking open.
ExecLock(t) ==
    /\ Begin(t)
    /\ m = "free"
    /\ IF OpenFifo.pc = "open_err"
       THEN /\ Return(t, "Exec", ExecResult(OpenFifo), "none")
            /\ UNCHANGED <<m, rd>>
       ELSE /\ m' = t
            /\ rd' = [rd EXCEPT ![t] = OpenFifo]
            /\ pc' = [pc EXCEPT ![t] = "exec_wait"]
            /\ op' = [op EXCEPT ![t] = "Exec"]
            /\ NoReturn
                   /\ UNCHANGED status
    /\ UNCHANGED <<cvars, fvars, hvars, gr, gvars>>
    /\ UNCHANGED lvars

\* Exec(): the read has returned; remove the path on data; unlock.
ExecFinish(t) ==
    /\ pc[t] = "exec_wait"
    /\ rd[t].pc \in {"got", "eof"}
    /\ execFifo' = IF rd[t].pc = "got" THEN NoFifo ELSE execFifo
    /\ Return(t, "Exec", ExecResult(rd[t]), "none")
    /\ rd' = [rd EXCEPT ![t] = IdleReader]
    /\ m' = "free"
    /\ UNCHANGED <<cvars, jailConf, stateFile, hvars, calls, gr, gvars>>
    /\ UNCHANGED lvars

\* go c.exec(): the goroutine Run started opens the path, without the lock.
GoOpen(g) ==
    /\ BagIn(g, gr)
    /\ g.pc = "open"
    /\ gr' = (gr (-) Copies(g, 1)) (+) Copies(OpenFifo, 1)
    /\ UNCHANGED <<cvars, m, fvars, hvars, tvars, rd, gvars>>
    /\ NoReturn
    /\ UNCHANGED lvars

\* go c.exec(): the open has failed or the read has returned; data read
\* => the path is removed.  The result is dropped and the goroutine ends.
GoFinish(g) ==
    /\ BagIn(g, gr)
    /\ g.pc \in {"got", "eof", "open_err"}
    /\ execFifo' = IF g.pc = "got" THEN NoFifo ELSE execFifo
    /\ gr' = gr (-) Copies(g, 1)
    /\ UNCHANGED <<cvars, m, jailConf, stateFile, hvars, tvars, rd, gvars>>
    /\ NoReturn
    /\ UNCHANGED lvars

\* ---------------------------------------------------------------- Destroy
\* containerState.destroy(): the state record is deleted, the jail id is
\* forgotten and the container is Stopped.
StateDestroy(c) == [c EXCEPT !.state = "stopped", !.jailId = 0]

\* A Destroy that runs jail -r whatever it remembers.
RunsJailRAlways(c) == TRUE

\* Destroy runs jail -r only with a jail id remembered.
RunsJailR(c) == c.jailId # 0

\* Destroy(): lock; with a jail id remembered run "jail -r <jid>" and wait
\* for it (when it cannot be spawned, print and return nil); then
\* c.state.destroy().  jail -r removes the jail and runs exec.stop, which
\* removes the launch time stamp file.
Destroy(t) ==
    /\ Begin(t)
    /\ m = "free"
    /\ \E spawned \in IF RunsJailR(Cont) THEN Outcomes(TRUE, {FALSE}) ELSE {TRUE} :
         IF ~spawned
         THEN /\ Fault(TRUE)
              /\ UNCHANGED <<cvars, stateFile, hostJail, launchTm>>
         ELSE LET c2 == StateDestroy(Cont)
                  hit == RunsJailR(Cont) /\ jailId # 0 /\ hostJail = jailId
              IN  /\ Fault(FALSE)
                  /\ hostJail' = IF hit THEN 0 ELSE hostJail
                  /\ launchTm' = IF hit THEN 0 ELSE launchTm
                  /\ jailId' = c2.jailId
                  /\ state' = c2.state
                  /\ stateFile' = NoState
                  /\ UNCHANGED <<initProcessStartTime, created>>
    /\ ReturnCmd(t, "Destroy", "nil", "none",
                 IF RunsJailR(Cont) THEN "jail -r" ELSE "none")
    /\ lastStart' = NoStart
    /\ UNCHANGED <<m, execFifo, jailConf, jcmd, rvars, everStarted>>
    /\ UNCHANGED lvars

\* ------------------------------------------------------------------- host
\* jail -c creates the jail (it fails when a jail of that name exists) and
\* runs exec.start in it up to "/bin/echo 0 > /exec.fifo": the shell opens
\* the path for writing, which blocks on a fifo until a reader has it
\* open; with no fifo there a regular file is written, the time stamp
\* follows and jail -c exits.
JailCreate ==
    /\ jcmd.pc = "create"
    /\ IF hostJail # 0
       THEN /\ jcmd' = [jcmd EXCEPT !.pc = "done", !.out = "exiterr"]
            /\ UNCHANGED <<hostJail, launchTm, execFifo>>
       ELSE /\ hostJail' = jcmd.k
            /\ IF execFifo.kind = "fifo"
               THEN /\ jcmd' = [jcmd EXCEPT !.pc = "blocked", !.wgen = execFifo.gen]
                    /\ UNCHANGED <<launchTm, execFifo>>
               ELSE /\ jcmd' = [jcmd EXCEPT !.pc = "done"]
                    /\ execFifo' = [kind |-> "file", gen |-> 0]
                    /\ launchTm' = jcmd.k
    /\ UNCHANGED <<cvars, m, jailConf, stateFile, faults, tvars, rvars, gvars>>
    /\ NoReturn
    /\ UNCHANGED lvars

\* The writer and the readers blocked on the same fifo meet: the marker is
\* written and the writer closes; one reader gets the data, every other
\* reader of that fifo reads end of file.  exec.start then writes the
\* launch time stamp and jail -c exits: cmd.Wait() returns nil or, rarely,
\* an error that is no ExitError.
BlockedOn(r, gen) == r.pc = "blocked" /\ r.gen = gen

Meet(r, gen, winner) ==
    IF ~BlockedOn(r, gen) THEN r
    ELSE [pc |-> IF winner THEN "got" ELSE "eof", gen |-> 0]

\* The goroutines blocked on the fifo wake: one of them with the data when
\* no thread got it, the others at end of file.
MeetAll(bag, gen, won) ==
    LET b == [pc |-> "blocked", gen |-> gen]
        n == CopiesIn(b, bag)
        w == IF won THEN 1 ELSE 0
    IN  (bag (-) Copies(b, n)) (+) Copies([pc |-> "got", gen |-> 0], w)
                               (+) Copies([pc |-> "eof", gen |-> 0], n - w)

\* tw: the thread that gets the data, "-" when a goroutine gets it.
Rendezvous ==
    /\ jcmd.pc = "blocked"
    /\ \E tw \in Threads \cup {"-"} :
         /\ tw # "-" => BlockedOn(rd[tw], jcmd.wgen)
         /\ tw = "-" => BagIn([pc |-> "blocked", gen |-> jcmd.wgen], gr)
         /\ rd' = [t \in Threads |-> Meet(rd[t], jcmd.wgen, t = tw)]
         /\ gr' = MeetAll(gr, jcmd.wgen, tw = "-")
    /\ launchTm' = jcmd.k
    /\ \E o \in Outcomes("ok", {"waiterr"}) :
         /\ jcmd' = [jcmd EXCEPT !.pc = "done", !.out = o]
         /\ Fault(o # "ok")
    /\ UNCHANGED <<cvars, m, fvars, hostJail, tvars, gvars>>
    /\ NoReturn
    /\ UNCHANGED lvars

\* jail -c fails on the way (bad descriptor, exec.start killed): the jail,
\* if it was created, is removed and the command exits non-zero.
JailAbort ==
    /\ jcmd.pc \in {"create", "blocked"}
    /\ faults < MaxFaults
    /\ Fault(TRUE)
    /\ jcmd' = [jcmd EXCEPT !.pc = "done", !.out = "exiterr"]
    /\ hostJail' = IF jcmd.pc = "create" THEN hostJail ELSE 0
    /\ UNCHANGED <<cvars, m, fvars, launchTm, tvars, rvars, gvars>>
    /\ NoReturn
    /\ UNCHANGED lvars

\* The jail ends by itself (its last process exits).
HostJailExit ==
    /\ hostJail # 0
    /\ jcmd.pc \in {"none", "done"}
    /\ hostJail' = 0
    /\ UNCHANGED <<cvars, m, fvars, launchTm, jcmd, faults, tvars, rvars, gvars>>
    /\ NoReturn
    /\ UNCHANGED lvars

\* ------------------------------------------------------------------- Spec
Next ==
    \/ \E t \in Threads : Status(t)
    \/ \E t \in Threads : State(t)
    \/ \E t \in Threads : Start(t)
    \/ \E t \in Threads : StartWait(t)
    \/ \E t \in Threads : RunStatus(t)
    \/ \E t \in Threads : RunStart(t)
    \/ \E t \in Threads : ExecLock(t)
    \/ \E t \in Threads : ExecFinish(t)
    \/ \E t \in Threads : Destroy(t)
    \/ \E g \in BagToSet(gr) : GoOpen(g)
    \/ \E g \in BagToSet(gr) : GoFinish(g)
    \/ JailCreate
    \/ Rendezvous
    \/ JailAbort
    \/ HostJailExit

Spec == Init /\ [][Next]_vars

\* ------------------------------------------------- rendering of jail.conf
\* start() builds jail.conf from the map params: one line per entry, in the
\* order the range over the map yields them (any order), sort.Strings on
\* the lines, and the lines joined inside "<id> { ... }".  Strings are
\* sequences of character codes: 9 tab, 10 newline, 32 space, 34 double
\* quote, 59 ';', 61 '=', 92 backslash, 123 '{', 125 '}'.
Ids == { <<99>>, <<99, 49>> }
Keys == { <<97>>, <<97, 46>>, <<98>> }
Values == { <<120>>, <<34>> }

\* The parameter maps of at most MaxParams entries.
ParamMaps ==
    UNION { [K -> Values] : K \in {S \in SUBSET Keys : Cardinality(S) <= MaxParams} }

mvars == <<cvars, m, fvars, hvars, tvars, rvars, ret, gvars>>

\* %#v of a string: in double quotes, with '"' and backslash escaped.
RECURSIVE Escape(_)
Escape(v) ==
    IF v = <<>> THEN <<>>
    ELSE (IF Head(v) \in {34, 92} THEN <<92, Head(v)>> ELSE <<Head(v)>>)
             \o Escape(Tail(v))

Quote(v) == <<34>> \o Escape(v) \o <<34>>

\* fmt.Sprintf("\t%v=%#v;", k, v)
Line(k, v) == <<9>> \o k \o <<61>> \o Quote(v) \o <<59>>

\* a < b for Go strings: bytewise, a proper prefix is smaller.
RECURSIVE StrLess(_, _)
StrLess(a, b) ==
    IF b = <<>> THEN FALSE
    ELSE IF a = <<>> THEN TRUE
    ELSE IF Head(a) # Head(b) THEN Head(a) < Head(b)
    ELSE StrLess(Tail(a), Tail(b))

\* x put at its place in the sorted sequence s.
RECURSIVE Insert(_, _)
Insert(x, s) ==
    IF s = <<>> THEN <<x>>
    ELSE IF StrLess(Head(s), x) THEN <<Head(s)>> \o Insert(x, Tail(s))
    ELSE <<x>> \o s

\* A sort that leaves the lines as the range yielded them.
SortStringsNone(s) == s

\* sort.Strings(lines)
RECURSIVE SortStrings(_)
SortStrings(s) ==
    IF s = <<>> THEN <<>> ELSE Insert(Head(s), SortStrings(Tail(s)))

\* strings.Join(ls, sep)
RECURSIVE Join(_, _)
Join(ls, sep) ==
    IF ls = <<>> THEN <<>>
    ELSE IF Len(ls) = 1 THEN Head(ls)
    ELSE Head(ls) \o sep \o Join(Tail(ls), sep)

\* fmt.Sprintf("%v {\n%v\n}\n", c.id, strings.Join(lines, "\n"))
Conf(id, ls) == id \o <<32, 123, 10>> \o Join(ls, <<10>>) \o <<10, 125, 10>>

\* A container whose start() is about to render a parameter map.
InitRender ==
    /\ InitContainer
    /\ execFifo = NoFifo /\ hostJail = 0
    /\ cid \in Ids
    /\ params \in ParamMaps
    /\ rest = DOMAIN params
    /\ lines = <<>>
    /\ conf = <<>>

\* for k, v := range params { lines = append(lines, ...) }: one iteration,
\* on whichever entry the map yields next.
RangeParams ==
    /\ conf = <<>>
    /\ \E k \in rest :
         /\ lines' = Append(lines, Line(k, params[k]))
         /\ rest' = rest \ {k}
    /\ UNCHANGED <<cid, params, conf, mvars>>

\* The range is over: sort.Strings(lines) and conf = Sprintf(...).
RenderConf ==
    /\ conf = <<>>
    /\ rest = {}
    /\ lines' = SortStrings(lines)
    /\ conf' = Conf(cid, lines')
    /\ UNCHANGED <<cid, params, rest, mvars>>

NextRender ==
    \/ RangeParams
    \/ RenderConf

SpecRender == InitRender /\ [][NextRender]_vars

\* ----------------------------------------------------------------- claims
\* What a status query resolves to in the current state.
Resolved == RunType(Cont, Host)

\* The last Start on a Stopped container succeeded, and the jail it
\* created and recorded is still the host's jail of this container.
StartedAlive ==
    lastStart.ok /\ lastStart.own /\ hostJail = lastStart.jail

\* C1: after a Start that succeeded on a Stopped container, with no Destroy
\* since and its jail still there, a second Start never launches jail -c
\* (no thread in Start is waiting on a spawned command).
C1_SecondStartNoLaunch ==
    \A t \in Threads :
        (StartedAlive /\ lastStart.op = "Start" /\ op[t] = "Start")
            => pc[t] # "start_wait"

\* C2: after a successful Start on a Stopped container whose jail and init
\* are alive, a Status query returns Created while the exec fifo is there
\* and Running once it has been consumed, never Stopped and never an error.
C2_CreatedUntilExec ==
    [][\A t \in Threads :
          (Status(t) /\ StartedAlive /\ launchTm # 0)
              => /\ ret'.err = "nil"
                 /\ ret'.st = IF execFifo.kind # "none" THEN "Created" ELSE "Running"]_vars

\* C3: the reader Run starts never finds the exec fifo missing, and while
\* the init command of a jail launched by Run is blocked writing the
\* readiness marker, a reader of Run is at that fifo or about to open it.
C3_ReaderMeetsSignal ==
    /\ \A g \in BagToSet(gr) : g.pc # "open_err"
    /\ \A t \in Threads :
         (op[t] = "Run" /\ pc[t] = "start_wait" /\ jcmd.pc = "blocked")
             => \E g \in BagToSet(gr) : g.pc = "open" \/ BlockedOn(g, jcmd.wgen)

\* C4: a thread that is inside a lifecycle operation (past its first read
\* of the container, before its last effect) holds the container's lock.
C4_LockHeldThroughout ==
    \A t \in Threads : pc[t] # "idle" => m = t

\* C5: a Status query made while the host has the jail and the live start
\* time differs from the remembered one returns Stopped (not Created, not
\* Running) and leaves the container stopped.
C5_MismatchIsStopped ==
    [][\A t \in Threads :
          (Status(t) /\ hostJail # 0 /\ launchTm # 0
                     /\ launchTm # initProcessStartTime)
              => /\ ret'.st = "Stopped"
                 /\ state' = "stopped"]_vars

\* C5 witness: a Status query has just returned Stopped for a container
\* that remembers a jail id while the host has the jail with another start
\* time.
C5_Witness ==
    /\ ret.op = "Status" /\ ret.err = "nil" /\ ret.st = "Stopped"
    /\ jailId # 0 /\ hostJail = jailId
    /\ launchTm # 0 /\ launchTm # initProcessStartTime

\* C6: a Status query on a container that remembers a jail id whose jail
\* has disappeared returns Stopped and no error.
C6_GoneIsStopped ==
    [][\A t \in Threads :
          (Status(t) /\ jailId # 0 /\ hostJail = 0)
              => /\ ret'.err = "nil"
                 /\ ret'.st = "Stopped"]_vars

\* C7: refreshState applied twice with the host unchanged: the second call
\* fails or succeeds as the first, resolves to the same status and leaves
\* the container as the first call left it.
C7_ReconcileIdempotent ==
    LET r1 == RefreshState(Cont, Host)
        r2 == RefreshState(r1.c, Host)
    IN  /\ r2.err = r1.err
        /\ StatusOf(r2.c.state) = StatusOf(r1.c.state)
        /\ r2.c = r1.c

\* C7 witness: Start or Run has returned (it reconciled) leaving the
\* container running in memory, and a reconcile now resolves to Stopped.
C7_Witness ==
    /\ ret.op \in {"Start", "Run"}
    /\ state = "running"
    /\ ~RefreshState(Cont, Host).err
    /\ RefreshState(Cont, Host).c.state = "stopped"

\* C8: as long as neither Start nor Run has been called, a Status query
\* returns Stopped and no error.
C8_NeverStartedIsStopped ==
    (~everStarted /\ ret.op = "Status")
        => (ret.err = "nil" /\ ret.st = "Stopped")

\* C8 witness: Status has returned on a never started container while a
\* stale exec fifo and a jail of the container's name are on the host.
C8_Witness ==
    /\ ~everStarted
    /\ ret.op = "Status"
    /\ execFifo.kind = "fifo"
    /\ hostJail # 0

\* C9: Status() and State() both reconcile: after either, the container's
\* state is what the host resolves to at the call.
C9_StatusAndStateReconcile ==
    [][\A t \in Threads :
          ((Status(t) \/ State(t)) /\ ~Resolved.err)
              => state' = StateOf(Resolved.st)]_vars

\* C10: after Destroy on a container that had a jail, no jail id is
\* remembered, the state record is absent and a status query resolves to
\* Stopped without error.
C10_DestroyClears ==
    [][\A t \in Threads :
          (Destroy(t) /\ jailId # 0 /\ hostJail = jailId)
              => /\ jailId' = 0
                 /\ ~stateFile'.present
                 /\ Resolved' = [st |-> "Stopped", err |-> FALSE]]_vars

\* C11: Destroy never returns with the persisted state record still there,
\* whatever happens to the jail -r command on the way.
C11_DestroyAlwaysDeletesState ==
    [][\A t \in Threads : Destroy(t) => ~stateFile'.present]_vars

\* C12: Destroy on a container that remembers no jail id (so it is Stopped)
\* returns nil, leaves no state record, starts no jail -r and leaves the
\* host's jail and its time stamp alone.
C12_DestroyWithoutJailId ==
    [][\A t \in Threads :
          (Destroy(t) /\ jailId = 0)
              => /\ ret'.err = "nil"
                 /\ ret'.cmd = "none"
                 /\ ~stateFile'.present
                 /\ hostJail' = hostJail /\ launchTm' = launchTm]_vars

\* C12 witness: Destroy has returned nil without starting a command, on a
\* container that was started before (a state record had been written) and
\* while the host holds a jail of the container's name.
C12_Witness ==
    /\ ret.op = "Destroy" /\ ret.err = "nil" /\ ret.cmd = "none"
    /\ created # 0
    /\ hostJail # 0
    /\ jailId = 0 /\ ~stateFile.present

\* The container resolves to Stopped, without a query error.
ResolvedStopped == Resolved = [st |-> "Stopped", err |-> FALSE]

\* C13: when the launch step of a Start on a Stopped container fails (start()
\* was entered, and jail.conf could not be written or jail could not be
\* spawned, or waiting for jail failed), Start returns an error and the exec
\* fifo is gone when it returns.
C13_LaunchFailureReported ==
    [][\A t \in Threads :
          /\ ( /\ Start(t) \/ RunStart(t)
               /\ ResolvedStopped
               /\ created' # created /\ faults' > faults /\ pc'[t] = "idle" )
                => (ret'.err # "nil" /\ execFifo'.kind = "none")
          /\ (StartWait(t) /\ status[t] = "Stopped" /\ jcmd.out = "waiterr")
                => (ret'.err # "nil" /\ execFifo'.kind = "none")]_vars

\* C14: a Start on a Stopped container that finds a file at the exec fifo
\* path returns the "already exists" error and launches nothing.
C14_StalePipeRejected ==
    [][\A t \in Threads :
          (Start(t) /\ ResolvedStopped /\ execFifo.kind # "none")
              => /\ ret'.op = "Start" /\ ret'.err = "exists"
                 /\ jcmd' = jcmd]_vars

\* C15: an Exec that finds no file at the exec fifo path (the container is
\* past the handshake) returns an error, and so does an exec() whose read
\* ends with no data, in Exec or in the goroutine of Run; neither changes
\* the container's state.
C15_ExecOnRunningFails ==
    [][/\ \A t \in Threads :
            /\ (ExecLock(t) /\ execFifo.kind = "none")
                  => (ret'.op = "Exec" /\ ret'.err # "nil" /\ state' = state)
            /\ (ExecFinish(t) /\ rd[t].pc = "eof")
                  => (ret'.err # "nil" /\ state' = state)
       /\ \A g \in BagToSet(gr) :
            (GoFinish(g) /\ g.pc = "eof")
                  => (ExecResult(g) # "nil" /\ state' = state)]_vars

\* C15 witness: Exec has returned an error on a container that is running,
\* resolves to Running and has no exec fifo.
C15_Witness ==
    /\ ret.op = "Exec" /\ ret.err # "nil"
    /\ state = "running"
    /\ Resolved = [st |-> "Running", err |-> FALSE]
    /\ execFifo.kind = "none"

\* C16: between operations (no thread inside a call), after a Start that
\* succeeded on a Stopped container whose jail is still up and with no host
\* fault so far, the exec fifo path exists exactly when the container
\* resolves to Created.
C16_PipeIffCreated ==
    ((\A t \in Threads : pc[t] = "idle") /\ StartedAlive /\ faults = 0)
        => (execFifo.kind # "none" <=> Resolved = [st |-> "Created", err |-> FALSE])

\* C17: a Run that is the only call made so far (the container was Stopped
\* at its check, so it started its reader) and met no host fault returns
\* only when its reader has finished: no goroutine of go c.exec() is left.
C17_RunWaitsForBoth ==
    [][\A t \in Threads :
          (op[t] = "Run" /\ calls = 1 /\ pc'[t] = "idle" /\ faults' = 0)
              => gr' = EmptyBag]_vars

\* C19: when jail -c has exited non-zero, Start returns an error, leaves
\* the container stopped (not running) and records no jail id.
C19_AbnormalExitIsStopped ==
    [][\A t \in Threads :
          (StartWait(t) /\ jcmd.out = "exiterr")
              => /\ ret'.err # "nil"
                 /\ state' = "stopped"
                 /\ jailId' = jailId]_vars

\* C20: when Exec returns nil after reading data from the exec fifo, the
\* container remembers the start time of the jail's init, is running, the
\* state record on disk holds that start time, and the fifo path is gone.
C20_ExecEffectsBeforeSuccess ==
    [][\A t \in Threads :
          (ExecFinish(t) /\ rd[t].pc = "got")
              => /\ ret'.err = "nil"
                 /\ execFifo'.kind = "none"
                 /\ state' = "running"
                 /\ initProcessStartTime' # 0
                 /\ initProcessStartTime' = launchTm'
                 /\ stateFile'.present
                 /\ stateFile'.startTime = initProcessStartTime']_vars

\* The lines of a parameter map, and the one descriptor text that holds
\* them in increasing order.
LinesOf(ps) == { Line(k, ps[k]) : k \in DOMAIN ps }

IsSorted(ls) == \A i \in 1..(Len(ls) - 1) : StrLess(ls[i], ls[i + 1])

Rendered(id, ps) ==
    LET n == Cardinality(DOMAIN ps)
    IN  Conf(id, CHOOSE ls \in [1..n -> LinesOf(ps)] :
                    /\ IsSorted(ls)
                    /\ { ls[i] : i \in 1..n } = LinesOf(ps))

\* C18: whatever order the range over the parameter map took, the rendered
\* descriptor is the one text determined by the container id and the map:
\* each entry's line once, the lines in increasing (bytewise) order.
C18_RenderDeterministic ==
    conf # <<>>
        => /\ Len(lines) = Cardinality(DOMAIN params)
           /\ { lines[i] : i \in 1..Len(lines) } = LinesOf(params)
           /\ IsSorted(lines)
           /\ conf = Rendered(cid, params)

\* C18 witness: a descriptor has been rendered from a map of MaxParams
\* entries, two of them with the keys "a" and "a." (the line of "a." sorts
\* first, as '.' < '=').
C18_Witness ==
    /\ conf # <<>>
    /\ Cardinality(DOMAIN params) = MaxParams
    /\ { <<97>>, <<97, 46>> } \subseteq DOMAIN params

\* C21: a Status query (its refreshState) leaves the exec fifo, jail.conf,
\* the state record and the host's jail with its launch time stamp as they
\* were, and does not touch the jail id or the creation time.
C21_StatusFrame ==
    [][\A t \in Threads :
          Status(t)
              => /\ execFifo' = execFifo
                 /\ jailConf' = jailConf
                 /\ stateFile' = stateFile
                 /\ hostJail' = hostJail /\ launchTm' = launchTm
                 /\ jailId' = jailId /\ created' = created]_vars

\* C21 witness: Status has just returned Stopped for a container that a
\* Start had left running in memory (the refresh did change the state),
\* with the state record holding the empty start time saved before the
\* launch while the exec fifo, jail.conf and the live jail are there.
C21_Witness ==
    /\ ret.op = "Status" /\ ret.err = "nil" /\ ret.st = "Stopped"
    /\ state = "stopped" /\ lastStart.ok
    /\ jailId # 0 /\ hostJail = jailId /\ launchTm # 0
    /\ stateFile.present /\ stateFile.startTime # launchTm
    /\ execFifo.kind # "none" /\ jailConf # 0

\* The scheduling the program can count on: a thread inside a call, a
\* goroutine, the jail command and the init script each take their next
\* step when they can.  Calls are made when the callers please, and host
\* faults need not happen.
Fairness ==
    /\ \A t \in Threads : WF_vars(StartWait(t))
    /\ \A t \in Threads : WF_vars(RunStart(t))
    /\ \A t \in Threads : WF_vars(ExecFinish(t))
    /\ WF_vars(\E g \in BagToSet(gr) : GoOpen(g))
    /\ WF_vars(\E g \in BagToSet(gr) : GoFinish(g))
    /\ WF_vars(JailCreate)
    /\ WF_vars(Rendezvous)

SpecFair == Spec /\ Fairness

\* C22: a Start that has launched jail -c eventually returns (it does not
\* wait for ever, the lock in hand, on a command whose init script waits
\* for a reader that needs the lock).
C22_StartReturns ==
    \A t \in Threads :
        (op[t] = "Start" /\ pc[t] = "start_wait") ~> (pc[t] = "idle")

\* C23: two Run calls on a fresh Stopped container, the only calls made.
\* While both are inside Run at most one reader goroutine has been started;
\* and once one of them has returned from a launch that succeeded, the
\* other does not launch jail -c or create the exec fifo again.
C23_TwoRunsLaunchOnce ==
    calls = 2 =>
        /\ (\A t \in Threads : op[t] = "Run") => BagCardinality(gr) <= 1
        /\ \A t \in Threads :
             (op[t] = "Run" /\ lastStart.op = "Run" /\ lastStart.ok)
                 => (pc[t] # "start_wait" /\ execFifo.gen <= 1)

\* C24: a Start call that reads the status Created or Running changes
\* nothing: created, jailId, the in-memory state, jail.conf, the exec fifo
\* and the saved state record are the same after each of its steps.
C24_StartFrame ==
    [][\A t \in Threads :
          \/ /\ Start(t)
             /\ ~CurrentStatus(Cont, Host).err
             /\ CurrentStatus(Cont, Host).st \in {"Created", "Running"}
          \/ /\ StartWait(t)
             /\ op[t] = "Start"
             /\ status[t] \in {"Created", "Running"}
          => /\ created' = created
             /\ jailId' = jailId
             /\ state' = state
             /\ jailConf' = jailConf
             /\ execFifo' = execFifo
             /\ stateFile' = stateFile]_vars

====
